---- MODULE Spec2Model ----
(***************************************************************************)
(* A model of wallix_ssh.py: the cache store, the history store, the       *)
(* search/filter pipeline, the connector and the command-line flows of     *)
(* main().                                                                 *)
(*                                                                         *)
(* Strings are sequences of one-character strings, so that str.lower,      *)
(* str.upper, str.strip, str.split and the "in" substring test are         *)
(* computed and not assumed.                                               *)
(***************************************************************************)
EXTENDS Integers, Sequences, FiniteSets, TLC

VARIABLES cacheFile,    \* content of self.cache_file
          historyFile,  \* content of self.history_file
          bastion,      \* the device directory held by the bastion API
          last,         \* the last manager call: its arguments and what it did
          pc,           \* position of main() / search_devices in an invocation
          args,         \* the parsed command line of the invocation
          depth,        \* number of search_devices frames below the current one
          trace         \* what the invocation did so far (counters, connections)

vars == <<cacheFile, historyFile, bastion, last, pc, args, depth, trace>>

----------------------------------------------------------------------------
(* Bounds of the model *)

MaxBulk == 11        \* largest generated device list (names n01, n02, ...)
MaxConnects == 3     \* connect_to_device calls explored in one history run
MaxDepth == 2        \* nested search_devices calls explored

(* Program constants *)

NewReportLimit == 10 \* save_cache: more new devices than this gives a count
HistoryCap == 10     \* update_history: history[:10]

----------------------------------------------------------------------------
(* str methods *)

UpperCase == <<"A","B","C","D","E","F","G","H","I","J","K","L","M",
               "N","O","P","Q","R","S","T","U","V","W","X","Y","Z">>
LowerCase == <<"a","b","c","d","e","f","g","h","i","j","k","l","m",
               "n","o","p","q","r","s","t","u","v","w","x","y","z">>

\* the characters that are not letters
OtherChars == {"0","1","2","3","4","5","6","7","8","9",".",":",","," ","^","_","-"}

Letters == {UpperCase[i] : i \in 1..26} \cup {LowerCase[i] : i \in 1..26}

LowerOf ==
    [c \in Letters \cup OtherChars |->
        IF \E i \in 1..26 : UpperCase[i] = c
        THEN LowerCase[CHOOSE i \in 1..26 : UpperCase[i] = c]
        ELSE c]

UpperOf ==
    [c \in Letters \cup OtherChars |->
        IF \E i \in 1..26 : LowerCase[i] = c
        THEN UpperCase[CHOOSE i \in 1..26 : LowerCase[i] = c]
        ELSE c]

LowerChar(c) == LowerOf[c]

UpperChar(c) == UpperOf[c]

StrLower(s) == [i \in 1..Len(s) |-> LowerChar(s[i])]

StrUpper(s) == [i \in 1..Len(s) |-> UpperChar(s[i])]

\* s.strip(): leading and trailing blanks removed
StrStrip(s) ==
    LET keep == {i \in 1..Len(s) : s[i] # " "}
    IN  IF keep = {} THEN <<>>
        ELSE LET lo == CHOOSE i \in keep : \A j \in keep : i <= j
                 hi == CHOOSE i \in keep : \A j \in keep : j <= i
             IN  SubSeq(s, lo, hi)

\* s.split(sep): the list of the parts between the separators
RECURSIVE StrSplit(_, _)
StrSplit(s, sep) ==
    LET at == {i \in 1..Len(s) : s[i] = sep}
    IN  IF at = {} THEN <<s>>
        ELSE LET i == CHOOSE k \in at : \A j \in at : k <= j
             IN  <<SubSeq(s, 1, i - 1)>> \o StrSplit(SubSeq(s, i + 1, Len(s)), sep)

\* sub in s
StrContains(sub, s) ==
    \E i \in 0..(Len(s) - Len(sub)) : SubSeq(s, i + 1, i + Len(sub)) = sub

\* x in list
InList(x, list) == \E i \in 1..Len(list) : list[i] = x

----------------------------------------------------------------------------
(* Devices, in the format of the bastion API *)

Digits == <<"0","1","2","3","4","5","6","7","8","9">>

Tag(k, v) == [key |-> k, value |-> v]
Svc(n) == [service_name |-> n]

web1 == [device_name |-> <<"w","e","b","1">>,
         host        |-> <<"1","0",".","1">>,
         services    |-> <<Svc(<<"S","S","H">>)>>,
         tags        |-> <<Tag(<<"e","n","v">>, <<"p","r","o","d">>)>>,
         description |-> <<"f","r","o","n","t","e","n","d">>]

db1 ==  [device_name |-> <<"d","b","1">>,
         host        |-> <<"1","0",".","2">>,
         services    |-> <<Svc(<<"S","S","H">>), Svc(<<"R","D","P">>)>>,
         tags        |-> <<Tag(<<"e","n","v">>, <<"p","r","o","d">>)>>,
         description |-> <<>>]

\* a device whose tag value holds a ':' and whose services are lower case
gw1 ==  [device_name |-> <<"G","W","1">>,
         host        |-> <<"g","w",".","1">>,
         services    |-> <<Svc(<<"s","s","h">>)>>,
         tags        |-> <<Tag(<<"u","r","l">>, <<"a",":","b">>)>>,
         description |-> <<"F","r","o","n","t"," ","G","W">>]

\* a device with no tag, no service and no description
bare1 == [device_name |-> <<"b","1">>,
          host        |-> <<"1","0",".","3">>,
          services    |-> <<>>,
          tags        |-> <<>>,
          description |-> <<>>]

\* web1 as the bastion holds it after its description and tags were edited
web1b == [web1 EXCEPT !.tags = <<Tag(<<"e","n","v">>, <<"d","e","v">>)>>,
                      !.description = <<"b","a","c","k">>]

Bulk(i) == [device_name |-> <<"n", Digits[(i \div 10) + 1], Digits[(i % 10) + 1]>>,
            host        |-> <<"h", Digits[(i \div 10) + 1], Digits[(i % 10) + 1]>>,
            services    |-> <<Svc(<<"S","S","H">>)>>,
            tags        |-> <<>>,
            description |-> <<>>]

BulkList(n) == [i \in 1..n |-> Bulk(i)]

\* the device lists the bastion may hold or return
DeviceLists ==
    { <<>>, <<web1>>, <<db1>>, <<web1, db1>>, <<db1, web1>>, <<gw1>>,
      <<web1b, db1>>, <<web1, db1, gw1, bare1>> }
    \cup { BulkList(n) : n \in (MaxBulk - 2)..MaxBulk }
    \cup { <<web1>> \o BulkList(MaxBulk - 1) }

Names(devices) == {devices[i].device_name : i \in 1..Len(devices)}

----------------------------------------------------------------------------
(* Cache store *)

\* f"{tag['key']}:{tag['value']}"
RenderTag(tag) == tag.key \o <<":">> \o tag.value

\* save_cache: the simplified record written for one device
Simplify(device) ==
    [nom         |-> device.device_name,
     hote        |-> device.host,
     services    |-> [i \in 1..Len(device.services) |-> device.services[i].service_name],
     tags        |-> [i \in 1..Len(device.tags) |-> RenderTag(device.tags[i])],
     description |-> device.description]

SimplifyAll(devices) == [i \in 1..Len(devices) |-> Simplify(devices[i])]

\* The cache file.  exists: the path exists; json: json.load succeeds;
\* hasTs / tsOk: the 'timestamp' key is there / fromisoformat accepts it;
\* hasDevices: the 'devices' key is there.
CacheAbsent ==
    [exists |-> FALSE, json |-> FALSE, hasTs |-> FALSE, tsOk |-> FALSE,
     hasDevices |-> FALSE, devices |-> <<>>]

Snapshot(simplified) ==
    [exists |-> TRUE, json |-> TRUE, hasTs |-> TRUE, tsOk |-> TRUE,
     hasDevices |-> TRUE, devices |-> simplified]

\* files that are not a well-formed snapshot
CorruptCaches ==
    { [Snapshot(SimplifyAll(<<web1>>)) EXCEPT !.json = FALSE],
      [Snapshot(SimplifyAll(<<web1>>)) EXCEPT !.hasTs = FALSE],
      [Snapshot(SimplifyAll(<<web1>>)) EXCEPT !.tsOk = FALSE],
      [Snapshot(<<>>) EXCEPT !.hasDevices = FALSE] }

WellFormedCache(file) ==
    file.exists /\ file.json /\ file.hasTs /\ file.tsOk /\ file.hasDevices

NoDevices == [some |-> FALSE, devices |-> <<>>]

\* load_cache as it would be if the timestamp were not looked at
load_cache_without_timestamp(file, force_refresh) ==
    IF force_refresh \/ ~file.exists
    THEN [ret |-> NoDevices, escaped |-> FALSE, logged |-> FALSE]
    ELSE IF ~file.json \/ ~file.hasDevices
    THEN [ret |-> NoDevices, escaped |-> FALSE, logged |-> TRUE]
    ELSE [ret |-> [some |-> TRUE, devices |-> file.devices],
          escaped |-> FALSE, logged |-> FALSE]

\* load_cache: [ret: the returned value, escaped: an exception left the call,
\*              logged: logger.error was called]
load_cache(file, force_refresh) ==
    IF force_refresh
    THEN [ret |-> NoDevices, escaped |-> FALSE, logged |-> FALSE]
    ELSE IF ~file.exists
    THEN [ret |-> NoDevices, escaped |-> FALSE, logged |-> FALSE]
    ELSE IF ~file.json \/ ~file.hasTs \/ ~file.tsOk \/ ~file.hasDevices
    THEN \* raised inside the try, caught by "except Exception"
         [ret |-> NoDevices, escaped |-> FALSE, logged |-> TRUE]
    ELSE [ret |-> [some |-> TRUE, devices |-> file.devices],
          escaped |-> FALSE, logged |-> FALSE]

\* save_cache, lines 131-136: reading the old cache raises
OldCacheUnreadable(file) == file.exists /\ (~file.json \/ ~file.hasDevices)

\* save_cache, lines 132-136
OldDevices(file) == IF file.exists THEN file.devices ELSE <<>>

\* save_cache, lines 161-162
NewDevices(simplified, old_devices) ==
    LET old_device_names == {old_devices[i].nom : i \in 1..Len(old_devices)}
    IN  SelectSeq(simplified, LAMBDA d : d.nom \notin old_device_names)

NoReport == [kind |-> "none", n |-> 0, names |-> {}]

\* save_cache, lines 160-188: what is reported as new
NewReport(simplified, old_devices) ==
    LET new_devices == NewDevices(simplified, old_devices)
    IN  IF old_devices # <<>> /\ new_devices # <<>>
        THEN IF Len(new_devices) > NewReportLimit
             THEN [kind |-> "count", n |-> Len(new_devices), names |-> {}]
             ELSE [kind |-> "table", n |-> Len(new_devices),
                   names |-> {new_devices[i].nom : i \in 1..Len(new_devices)}]
        ELSE NoReport

\* save_cache: [file: the cache file afterwards, report, logged]
save_cache(file, devices) ==
    IF OldCacheUnreadable(file)
    THEN [file |-> file, report |-> NoReport, logged |-> TRUE]
    ELSE [file   |-> Snapshot(SimplifyAll(devices)),
          report |-> NewReport(SimplifyAll(devices), OldDevices(file)),
          logged |-> FALSE]

----------------------------------------------------------------------------
(* Device directory client *)

\* outcomes of one HTTP request: a status code, or a RequestException
HttpOutcomes == {"200", "204", "206", "500", "RequestException"}

\* authenticate: True only on status 204
authenticate(http) == http = "204"

\* get_devices, line 224: one cached "key:value" string back to a tag
TagFromCache(t) == [key |-> StrSplit(t, ":")[1], value |-> StrSplit(t, ":")[2]]

\* get_devices, line 224: t.split(':')[1] raises IndexError
TagFromCacheRaises(t) == Len(StrSplit(t, ":")) < 2

\* get_devices, lines 220-226: one cached record back to the API format
FromCache(device) ==
    [device_name |-> device.nom,
     host        |-> device.hote,
     services    |-> [i \in 1..Len(device.services) |-> Svc(device.services[i])],
     tags        |-> [i \in 1..Len(device.tags) |-> TagFromCache(device.tags[i])],
     description |-> device.description]

FromCacheRaises(cached) ==
    \E i \in 1..Len(cached) : \E j \in 1..Len(cached[i].tags) :
        TagFromCacheRaises(cached[i].tags[j])

\* get_devices as it would be if a failed fetch were saved as an empty list
get_devices_saving_failure(file, directory, force_refresh, http) ==
    LET cached == load_cache(file, force_refresh).ret
    IN  IF ~force_refresh /\ cached.some
        THEN [ret |-> [i \in 1..Len(cached.devices) |-> FromCache(cached.devices[i])],
              escaped |-> FromCacheRaises(cached.devices), file |-> file,
              fetched |-> FALSE, saved |-> FALSE, report |-> NoReport]
        ELSE [ret |-> IF http \in {"200", "206"} THEN directory ELSE <<>>,
              escaped |-> FALSE,
              file |-> save_cache(file, IF http \in {"200", "206"}
                                        THEN directory ELSE <<>>).file,
              fetched |-> TRUE, saved |-> TRUE,
              report |-> NoReport]

\* get_devices: [ret, escaped, file: the cache file afterwards, fetched: a GET
\*               was sent, saved: save_cache was called, report]
get_devices(file, directory, force_refresh, http) ==
    LET cached == load_cache(file, force_refresh).ret
    IN  IF ~force_refresh /\ cached.some
        THEN IF FromCacheRaises(cached.devices)
             THEN [ret |-> <<>>, escaped |-> TRUE, file |-> file,
                   fetched |-> FALSE, saved |-> FALSE, report |-> NoReport]
             ELSE [ret |-> [i \in 1..Len(cached.devices) |-> FromCache(cached.devices[i])],
                   escaped |-> FALSE, file |-> file,
                   fetched |-> FALSE, saved |-> FALSE, report |-> NoReport]
        ELSE IF http \in {"200", "206"}
        THEN [ret |-> directory, escaped |-> FALSE,
              file |-> save_cache(file, directory).file,
              fetched |-> TRUE, saved |-> TRUE,
              report |-> save_cache(file, directory).report]
        ELSE [ret |-> <<>>, escaped |-> FALSE, file |-> file,
              fetched |-> TRUE, saved |-> FALSE, report |-> NoReport]

\* next((d for d in devices if d['device_name'] == name), None)
HasDevice(devices, name) == \E i \in 1..Len(devices) : devices[i].device_name = name

FindDevice(devices, name) ==
    devices[CHOOSE i \in 1..Len(devices) :
                /\ devices[i].device_name = name
                /\ \A j \in 1..(i - 1) : devices[j].device_name # name]

\* an optional argument: None, or a value
None == [some |-> FALSE, val |-> <<>>]
Some(v) == [some |-> TRUE, val |-> v]

\* update_device, lines 489-492: "k1:v1,k2:v2" to a list of tags
ParseNewTags(tags) ==
    LET parts == StrSplit(tags, ",")
    IN  [i \in 1..Len(parts) |-> TagFromCache(parts[i])]

ParseNewTagsRaises(tags) ==
    \E i \in 1..Len(StrSplit(tags, ",")) : TagFromCacheRaises(StrSplit(tags, ",")[i])

\* update_device, lines 482-485
PutDescription(device, description) ==
    IF description.some THEN description.val ELSE device.description

\* update_device, lines 487-494
PutTags(device, tags) ==
    IF tags.some THEN ParseNewTags(tags.val) ELSE device.tags

\* update_device, lines 477-494: the JSON body of the PUT
UpdateData(device, description, tags) ==
    [device_name |-> device.device_name,
     host        |-> device.host,
     description |-> PutDescription(device, description),
     tags        |-> PutTags(device, tags)]

\* the bastion applying an accepted PUT to its directory
ApplyPut(directory, name, data) ==
    [i \in 1..Len(directory) |->
        IF directory[i].device_name = name
        THEN [directory[i] EXCEPT !.description = data.description, !.tags = data.tags]
        ELSE directory[i]]

NoPut == [sent |-> FALSE, data |-> <<>>]

\* update_device: [ret, put: the PUT that was sent, file, directory: cache file
\* and bastion directory afterwards].  authHttp, getHttp, putHttp, refreshHttp
\* are the outcomes of its four requests.
update_device(file, directory, device_name, description, tags,
              authHttp, getHttp, putHttp, refreshHttp) ==
    LET got    == get_devices(file, directory, FALSE, getHttp)
        device == FindDevice(got.ret, device_name)
        data   == UpdateData(device, description, tags)
        after  == ApplyPut(directory, device_name, data)
    IN  IF ~authenticate(authHttp)
        THEN [ret |-> FALSE, put |-> NoPut, file |-> file, directory |-> directory]
        ELSE IF got.escaped \/ ~HasDevice(got.ret, device_name)
        THEN [ret |-> FALSE, put |-> NoPut, file |-> got.file, directory |-> directory]
        ELSE IF tags.some /\ ParseNewTagsRaises(tags.val)
        THEN [ret |-> FALSE, put |-> NoPut, file |-> got.file, directory |-> directory]
        ELSE IF putHttp \in {"200", "204"}
        THEN [ret |-> TRUE, put |-> [sent |-> TRUE, data |-> data],
              file |-> get_devices(got.file, after, TRUE, refreshHttp).file,
              directory |-> after]
        ELSE [ret |-> FALSE,
              put |-> [sent |-> putHttp # "RequestException", data |-> data],
              file |-> got.file, directory |-> directory]

----------------------------------------------------------------------------
(* History store *)

\* The history file.  exists: the path exists; json: json.load gives a list
\* of entries that each hold a 'device_name'.
HistoryAbsent == [exists |-> FALSE, json |-> FALSE, entries |-> <<>>]

HistoryOf(entries) == [exists |-> TRUE, json |-> TRUE, entries |-> entries]

HistoryCorrupt == [exists |-> TRUE, json |-> FALSE, entries |-> <<>>]

\* update_history, lines 302-309
NewEntry(device, now) ==
    [device_name |-> device.device_name,
     host        |-> device.host,
     services    |-> [i \in 1..Len(device.services) |-> device.services[i].service_name],
     tags        |-> [i \in 1..Len(device.tags) |-> RenderTag(device.tags[i])],
     description |-> device.description,
     timestamp   |-> now]

\* list.pop(i)
Pop(list, i) == SubSeq(list, 1, i - 1) \o SubSeq(list, i + 1, Len(list))

\* update_history as it would be if the earlier entry were left in place
RemoveNothing(history, name) == history

\* update_history, lines 296-313: the first entry of the same name is removed
RemoveExisting(history, name) ==
    IF \E i \in 1..Len(history) : history[i].device_name = name
    THEN Pop(history, CHOOSE i \in 1..Len(history) :
                         /\ history[i].device_name = name
                         /\ \A j \in 1..(i - 1) : history[j].device_name # name)
    ELSE history

\* history[:10]
Truncate(history) == SubSeq(history, 1, IF Len(history) < HistoryCap THEN Len(history) ELSE HistoryCap)

\* update_history, lines 311-319
InsertEntry(history, entry) ==
    Truncate(<<entry>> \o RemoveExisting(history, entry.device_name))

\* update_history, lines 290-293: reading the history raises
HistoryUnreadable(file) == file.exists /\ ~file.json

\* update_history: [file: the history file afterwards, logged]
update_history(file, device, now) ==
    IF HistoryUnreadable(file)
    THEN [file |-> file, logged |-> TRUE]
    ELSE [file |-> HistoryOf(InsertEntry(IF file.exists THEN file.entries ELSE <<>>,
                                         NewEntry(device, now))),
          logged |-> FALSE]

----------------------------------------------------------------------------
(* Connector *)

\* outcomes of open(script_dir / filename, 'rb') and f.read()
ReadOutcomes == {"ok", "FileNotFoundError", "PermissionError"}

\* connect_to_device, lines 424-433: the files read so far; the loop skips a
\* file that is not found
RECURSIVE FilesContent(_, _)
FilesContent(deploy_files, reads) ==
    IF deploy_files = <<>> THEN <<>>
    ELSE (IF reads[Head(deploy_files)] = "ok" THEN <<Head(deploy_files)>> ELSE <<>>)
         \o FilesContent(Tail(deploy_files), reads)

\* connect_to_device, lines 419-453: an exception other than FileNotFoundError
\* leaves the loop and is caught by the outer handler
DeployRaises(deploy_files, reads) ==
    \E i \in 1..Len(deploy_files) : reads[deploy_files[i]] = "PermissionError"

\* connect_to_device, line 442
HasBashrc(deploy_files, files_content) == InList(".bashrc_remote", deploy_files)

\* connect_to_device, lines 411-453: [files: the files the remote command
\* writes, shell: what the remote command starts after them]
SshCommand(interactive, no_deploy, deploy_files, reads) ==
    IF no_deploy \/ interactive
    THEN [files |-> <<>>, shell |-> "default"]
    ELSE IF DeployRaises(deploy_files, reads)
    THEN [files |-> <<>>, shell |-> "bash -l"]
    ELSE IF FilesContent(deploy_files, reads) # <<>>
    THEN [files |-> FilesContent(deploy_files, reads),
          shell |-> IF HasBashrc(deploy_files, FilesContent(deploy_files, reads))
                    THEN "bash --rcfile /tmp/.bashrc_remote"
                    ELSE "bash -l"]
    ELSE [files |-> <<>>, shell |-> "bash -l"]

\* connect_to_device: [file: the history file when subprocess.run starts,
\* command, user: the login on the bastion]
connect_to_device(file, device, interactive, no_deploy, deploy_files, reads, now) ==
    [file    |-> update_history(file, device, now).file,
     command |-> SshCommand(interactive, no_deploy, deploy_files, reads),
     user    |-> IF interactive THEN "Interactive" ELSE "username"]

----------------------------------------------------------------------------
(* Search / filter engine *)

\* re.compile(p, re.IGNORECASE).search(s), for the patterns "literal" and
\* "^literal"
RegexSearch(pattern, s) ==
    IF pattern # <<>> /\ Head(pattern) = "^"
    THEN /\ Len(Tail(pattern)) <= Len(s)
         /\ SubSeq(StrLower(s), 1, Len(pattern) - 1) = StrLower(Tail(pattern))
    ELSE StrContains(StrLower(pattern), StrLower(s))

\* search_devices, line 531
MatchesRegex(d, filter_regex) ==
    \/ RegexSearch(filter_regex, d.device_name)
    \/ RegexSearch(filter_regex, d.host)
    \/ RegexSearch(filter_regex, d.description)

\* search_devices, line 535
RequiredServices(filter_services) ==
    LET parts == StrSplit(filter_services, ",")
    IN  [i \in 1..Len(parts) |-> StrUpper(StrStrip(parts[i]))]

\* search_devices, line 536
MatchesServices(d, filter_services) ==
    LET required_services == RequiredServices(filter_services)
        names == [i \in 1..Len(d.services) |-> StrUpper(d.services[i].service_name)]
    IN  \A k \in 1..Len(required_services) : InList(required_services[k], names)

\* search_devices, line 540
RequiredTags(filter_tags) ==
    LET parts == StrSplit(filter_tags, ",")
    IN  [i \in 1..Len(parts) |-> StrLower(StrStrip(parts[i]))]

\* search_devices, line 541: tag.lower() on a tag, which is a dict
\* {'key': ..., 'value': ...}, raises AttributeError; the list is built for
\* the first required tag of every device still in results
TagLowerRaises(d) == d.tags # <<>>

\* search_devices, line 541: the test on a device whose tag list is empty
MatchesTags(d, filter_tags) ==
    \A k \in 1..Len(RequiredTags(filter_tags)) : InList(RequiredTags(filter_tags)[k], <<>>)

\* the substring test as it would be if the description were left out
MatchesQueryNameHost(d, query) ==
    \/ StrContains(StrLower(query), StrLower(d.device_name))
    \/ StrContains(StrLower(query), StrLower(d.host))

\* search_devices, lines 547-549
MatchesQuery(d, query) ==
    LET q == StrLower(query)
    IN  \/ StrContains(q, StrLower(d.device_name))
        \/ StrContains(q, StrLower(d.host))
        \/ StrContains(q, StrLower(d.description))

\* search_devices, lines 528-531
AfterRegex(results, filter_regex) ==
    IF filter_regex # <<>>
    THEN SelectSeq(results, LAMBDA d : MatchesRegex(d, filter_regex))
    ELSE results

\* search_devices, lines 534-536
AfterServices(results, filter_services) ==
    IF filter_services # <<>>
    THEN SelectSeq(results, LAMBDA d : MatchesServices(d, filter_services))
    ELSE results

\* search_devices, lines 539-541
AfterTags(results, filter_tags) ==
    IF filter_tags # <<>>
    THEN SelectSeq(results, LAMBDA d : MatchesTags(d, filter_tags))
    ELSE results

TagsRaise(results, filter_tags) ==
    filter_tags # <<>> /\ \E i \in 1..Len(results) : TagLowerRaises(results[i])

\* search_devices, lines 544-550
AfterQuery(results, query) ==
    IF query # <<>>
    THEN SelectSeq(results, LAMBDA d : MatchesQuery(d, query))
    ELSE results

\* search_devices, line 522
NoFilters(query, filter_regex, filter_services, filter_tags) ==
    query = <<>> /\ filter_regex = <<>> /\ filter_services = <<>> /\ filter_tags = <<>>

\* search_devices, lines 522-550: [results, raised: an exception left the
\* pipeline]
FilterDevices(devices, query, filter_regex, filter_services, filter_tags) ==
    LET r1 == AfterRegex(devices, filter_regex)
        r2 == AfterServices(r1, filter_services)
    IN  IF NoFilters(query, filter_regex, filter_services, filter_tags)
        THEN [results |-> devices, raised |-> FALSE]
        ELSE IF TagsRaise(r2, filter_tags)
        THEN [results |-> <<>>, raised |-> TRUE]
        ELSE [results |-> AfterQuery(AfterTags(r2, filter_tags), query),
              raised |-> FALSE]

----------------------------------------------------------------------------
(* Values of the variables a specification does not use *)

NoArgs == [mode |-> "none"]

NoTrace == [connects |-> <<>>]

Idle ==
    /\ pc = "idle"
    /\ args = NoArgs
    /\ depth = 0

----------------------------------------------------------------------------
(* SpecCache: the cache store and the directory fetch, called one after the
   other on any cache file *)

CacheFiles ==
    {CacheAbsent} \cup CorruptCaches \cup {Snapshot(SimplifyAll(D)) : D \in DeviceLists}

CacheInit ==
    /\ cacheFile \in CacheFiles
    /\ bastion \in DeviceLists
    /\ historyFile = HistoryAbsent
    /\ last = [op |-> "none"]
    /\ trace = NoTrace
    /\ Idle

\* save_cache(devices)
SaveCache ==
    \E devices \in DeviceLists :
        /\ cacheFile' = save_cache(cacheFile, devices).file
        /\ last' = [op      |-> "save_cache",
                    devices |-> devices,
                    report  |-> save_cache(cacheFile, devices).report,
                    logged  |-> save_cache(cacheFile, devices).logged]
        /\ UNCHANGED <<historyFile, bastion, pc, args, depth, trace>>

\* load_cache(force_refresh)
LoadCache ==
    \E force_refresh \in BOOLEAN :
        /\ last' = [op      |-> "load_cache",
                    force   |-> force_refresh,
                    ret     |-> load_cache(cacheFile, force_refresh).ret,
                    escaped |-> load_cache(cacheFile, force_refresh).escaped,
                    logged  |-> load_cache(cacheFile, force_refresh).logged]
        /\ UNCHANGED <<cacheFile, historyFile, bastion, pc, args, depth, trace>>

\* get_devices(force_refresh), the bastion answering the GET with http
GetDevices ==
    \E force_refresh \in BOOLEAN, http \in {"200", "206", "500", "RequestException"} :
        LET got == get_devices(cacheFile, bastion, force_refresh, http)
        IN  /\ cacheFile' = got.file
            /\ last' = [op      |-> "get_devices",
                        force   |-> force_refresh,
                        http    |-> http,
                        ret     |-> got.ret,
                        escaped |-> got.escaped,
                        fetched |-> got.fetched,
                        saved   |-> got.saved,
                        report  |-> got.report]
            /\ UNCHANGED <<historyFile, bastion, pc, args, depth, trace>>

CacheNext == SaveCache \/ LoadCache \/ GetDevices

SpecCache == CacheInit /\ [][CacheNext]_vars

----------------------------------------------------------------------------
(* SpecUpdate: update_device and get_devices against a bastion directory *)

UpdateDirs == { <<web1, db1>>, <<web1b, db1>>, <<gw1>>, <<db1>> }

UpdateCaches ==
    {CacheAbsent} \cup {Snapshot(SimplifyAll(D)) : D \in UpdateDirs}

UpdateNames == {web1.device_name, gw1.device_name}

Descriptions == {None, Some(<<"n","e","w">>)}

NewTags == {None, Some(<<"e","n","v",":","d","e","v",",","a",":","b">>), Some(<<"e","n","v">>)}

UpdateInit ==
    /\ cacheFile \in UpdateCaches
    /\ bastion \in UpdateDirs
    /\ historyFile = HistoryAbsent
    /\ last = [op |-> "none"]
    /\ trace = NoTrace
    /\ Idle

\* update_device(device_name, description, tags).  The bastion accepts a PUT
\* only for a device it holds.
UpdateDevice ==
    \E device_name \in UpdateNames, description \in Descriptions, tags \in NewTags,
       authHttp \in {"204", "500"}, getHttp \in {"200", "500"},
       putHttp \in {"200", "204", "500", "RequestException"},
       refreshHttp \in {"200", "500"} :
        LET u == update_device(cacheFile, bastion, device_name, description, tags,
                               authHttp, getHttp, putHttp, refreshHttp)
        IN  /\ putHttp \in {"200", "204"} => HasDevice(bastion, device_name)
            /\ cacheFile' = u.file
            /\ bastion' = u.directory
            /\ last' = [op          |-> "update_device",
                        name        |-> device_name,
                        description |-> description,
                        tags        |-> tags,
                        existing    |-> IF HasDevice(bastion, device_name)
                                        THEN Some(FindDevice(bastion, device_name))
                                        ELSE None,
                        ret         |-> u.ret,
                        put         |-> u.put]
            /\ UNCHANGED <<historyFile, pc, args, depth, trace>>

UpdateNext == UpdateDevice \/ GetDevices

SpecUpdate == UpdateInit /\ [][UpdateNext]_vars

----------------------------------------------------------------------------
(* SpecSearch: the filter pipeline of search_devices on the list get_devices
   returns *)

SearchDirs == { <<web1, db1>>, <<web1, db1, gw1, bare1>>, <<bare1>> }

SearchCaches == {CacheAbsent} \cup {Snapshot(SimplifyAll(D)) : D \in SearchDirs}

Queries == {<<>>, <<"f","r","o","n","t">>, <<"D","B">>}

Regexes == {<<>>, <<"^","W">>, <<"w">>}

ServiceFilters == {<<>>, <<"R","D","P">>, <<"s","s","h">>, <<"S","S","H",","," ","r","d","p">>}

TagFilters == {<<>>, <<"e","n","v",":","p","r","o","d">>, <<"E","N","V",":","P","r","o","d",","," ","u","r","l",":","a",":","b">>}

SearchInit ==
    /\ cacheFile \in SearchCaches
    /\ bastion \in SearchDirs
    /\ historyFile = HistoryAbsent
    /\ last = [op |-> "none"]
    /\ trace = NoTrace
    /\ Idle

\* search_devices, lines 521-550: the devices are obtained and filtered
SearchFilter ==
    \E query \in Queries, filter_regex \in Regexes, filter_services \in ServiceFilters,
       filter_tags \in TagFilters, http \in {"200", "500"} :
        LET got == get_devices(cacheFile, bastion, FALSE, http)
            f   == FilterDevices(got.ret, query, filter_regex, filter_services, filter_tags)
        IN  /\ cacheFile' = got.file
            /\ last' = [op              |-> "search_devices",
                        devices         |-> got.ret,
                        fetched         |-> got.fetched,
                        query           |-> query,
                        filter_regex    |-> filter_regex,
                        filter_services |-> filter_services,
                        filter_tags     |-> filter_tags,
                        results         |-> f.results,
                        raised          |-> got.escaped \/ f.raised]
            /\ UNCHANGED <<historyFile, bastion, pc, args, depth, trace>>

SearchNext == SearchFilter

SpecSearch == SearchInit /\ [][SearchNext]_vars

----------------------------------------------------------------------------
(* SpecHistory: connect_to_device called up to MaxConnects times on any
   history file *)

EntryOf(device) == NewEntry(device, 0)

FullHistory == [i \in 1..HistoryCap |-> EntryOf(Bulk(i))]

HistoryFiles ==
    { HistoryAbsent, HistoryCorrupt, HistoryOf(<<>>), HistoryOf(<<EntryOf(web1)>>),
      HistoryOf(<<EntryOf(db1), EntryOf(web1)>>), HistoryOf(FullHistory) }

ConnectDevices == {web1, db1, Bulk(HistoryCap), Bulk(HistoryCap + 1)}

DeployNames == {".bashrc_remote", ".vimrc"}

DeployLists == { <<>>, <<".vimrc">>, <<".bashrc_remote", ".vimrc">> }

AllOk == [f \in DeployNames |-> "ok"]

HistoryInit ==
    /\ historyFile \in HistoryFiles
    /\ cacheFile = CacheAbsent
    /\ bastion = <<>>
    /\ last = [op |-> "none"]
    /\ trace = [connects |-> <<>>, init |-> historyFile]
    /\ Idle

\* connect_to_device(device, interactive, no_deploy), with the configured
\* deploy list and the outcome of reading each of its files
Connect ==
    \E device \in ConnectDevices, interactive \in BOOLEAN, no_deploy \in BOOLEAN,
       deploy_files \in DeployLists, reads \in [DeployNames -> ReadOutcomes] :
        LET c == connect_to_device(historyFile, device, interactive, no_deploy,
                                   deploy_files, reads, Len(trace.connects) + 1)
        IN  /\ Len(trace.connects) < MaxConnects
            /\ (no_deploy \/ interactive \/ deploy_files = <<>>) => reads = AllOk
            /\ (no_deploy \/ interactive) => deploy_files = <<>>
            /\ historyFile' = c.file
            /\ last' = [op           |-> "connect_to_device",
                        device       |-> device,
                        interactive  |-> interactive,
                        no_deploy    |-> no_deploy,
                        deploy_files |-> deploy_files,
                        reads        |-> reads,
                        historyAtRun |-> c.file,
                        command      |-> c.command,
                        user         |-> c.user]
            /\ trace' = [trace EXCEPT !.connects = Append(@, device.device_name)]
            /\ UNCHANGED <<cacheFile, bastion, pc, args, depth>>

HistoryNext == Connect

SpecHistory == HistoryInit /\ [][HistoryNext]_vars

----------------------------------------------------------------------------
(* SpecMain: one invocation of main(), step by step.  pc is the place the
   invocation waits at: "start", a prompt, the entry of a search_devices
   frame ("search"), its return ("return"), or "done" once the process has
   exited. *)

BaseArgs ==
    [list |-> FALSE, connect |-> <<>>, search |-> <<>>, search_term |-> <<>>,
     filter |-> <<>>, services |-> <<>>, tags |-> <<>>, force_refresh |-> FALSE,
     interactive |-> FALSE, update |-> <<>>, description |-> None,
     new_tags |-> None, no_deploy |-> FALSE,
     deploy_files |-> <<".bashrc_remote", ".vimrc">>]

Invocations ==
    { BaseArgs,
      [BaseArgs EXCEPT !.list = TRUE],
      [BaseArgs EXCEPT !.list = TRUE, !.filter = <<"^","W">>, !.services = <<"s","s","h">>],
      [BaseArgs EXCEPT !.list = TRUE, !.tags = <<"e","n","v",":","p","r","o","d">>],
      [BaseArgs EXCEPT !.list = TRUE, !.force_refresh = TRUE],
      [BaseArgs EXCEPT !.connect = web1.device_name],
      [BaseArgs EXCEPT !.connect = gw1.device_name, !.interactive = TRUE],
      [BaseArgs EXCEPT !.connect = web1.device_name, !.force_refresh = TRUE],
      [BaseArgs EXCEPT !.search = <<"f","r","o","n","t">>],
      [BaseArgs EXCEPT !.search = <<"D","B">>, !.no_deploy = TRUE],
      [BaseArgs EXCEPT !.search_term = <<"f","r","o","n","t">>],
      [BaseArgs EXCEPT !.search = <<"f","r","o","n","t">>, !.force_refresh = TRUE],
      [BaseArgs EXCEPT !.search = <<"f","r","o","n","t">>, !.tags = <<"e","n","v",":","p","r","o","d">>],
      [BaseArgs EXCEPT !.force_refresh = TRUE],
      [BaseArgs EXCEPT !.filter = <<"^","W">>],
      [BaseArgs EXCEPT !.update = web1.device_name],
      [BaseArgs EXCEPT !.update = web1.device_name, !.description = Some(<<"n","e","w">>)],
      [BaseArgs EXCEPT !.update = gw1.device_name, !.new_tags = Some(<<"e","n","v",":","d","e","v",",","a",":","b">>)] }

MainDirs == { <<web1, db1>>, <<web1, db1, gw1, bare1>>, <<bare1>> }

MainCaches ==
    { CacheAbsent, [Snapshot(SimplifyAll(<<web1>>)) EXCEPT !.json = FALSE],
      Snapshot(SimplifyAll(<<db1>>)), Snapshot(SimplifyAll(<<web1, db1, gw1, bare1>>)) }

MainHistories ==
    { HistoryAbsent, HistoryCorrupt, HistoryOf(<<EntryOf(web1), EntryOf(gw1)>>) }

StartTrace ==
    [auths      |-> 0,       \* authenticate() calls
     authFailed |-> FALSE,   \* one of them returned False
     forced     |-> 0,       \* get_devices(force_refresh=True) calls
     prompts    |-> 0,       \* "force cache refresh and try again?" prompts
     offers     |-> 0,       \* result tables shown with a prompt to connect
     connects   |-> <<>>,    \* device names connect_to_device was called for
     lookups    |-> <<>>,    \* outcomes of the lookups by exact name
     results    |-> <<>>,    \* devices of main / results of the current frame
     crashed    |-> FALSE,   \* an exception left main()
     exit       |-> -1]      \* exit status, -1 while running

MainInit ==
    /\ args \in Invocations
    /\ cacheFile \in MainCaches
    /\ bastion \in MainDirs
    /\ historyFile \in MainHistories
    /\ last = [op |-> "none"]
    /\ pc = "start"
    /\ depth = 0
    /\ trace = StartTrace

\* main, lines 742-743: a positional term is a search when no action is given
EffectiveSearch(a) ==
    IF a.search_term # <<>>
       /\ ~(a.list \/ a.connect # <<>> \/ a.search # <<>> \/ a.force_refresh
            \/ a.update # <<>>)
    THEN a.search_term
    ELSE a.search

\* main, line 746
AnyAction(a) ==
    a.list \/ a.connect # <<>> \/ EffectiveSearch(a) # <<>> \/ a.force_refresh
    \/ a.update # <<>>

\* sys.exit(code), or main() returning (code 0)
Exit(t, code) == [t EXCEPT !.exit = code]

\* an exception other than KeyboardInterrupt leaves main()
Crash(t) == [t EXCEPT !.exit = 1, !.crashed = TRUE]

\* get_history
get_history(file) == IF file.exists /\ file.json THEN file.entries ELSE <<>>

\* the call connect_to_device(device, args.interactive, args.no_deploy)
CallConnect(device, reads) ==
    LET c == connect_to_device(historyFile, device, args.interactive, args.no_deploy,
                               args.deploy_files, reads, Len(trace.connects) + 1)
    IN  /\ historyFile' = c.file
        /\ last' = [op           |-> "connect_to_device",
                    device       |-> device,
                    interactive  |-> args.interactive,
                    no_deploy    |-> args.no_deploy,
                    deploy_files |-> args.deploy_files,
                    reads        |-> reads,
                    historyAtRun |-> c.file,
                    command      |-> c.command,
                    user         |-> c.user]

Connected(t, device) == [t EXCEPT !.connects = Append(@, device.device_name)]

ReadCases == {AllOk, [AllOk EXCEPT ![".bashrc_remote"] = "FileNotFoundError"]}

\* main, lines 746-748 and display_history, lines 338-341
MainHistory ==
    /\ pc = "start"
    /\ ~AnyAction(args)
    /\ IF get_history(historyFile) = <<>>
       THEN pc' = "done" /\ trace' = Exit(trace, 0)
       ELSE pc' = "history_menu" /\ trace' = [trace EXCEPT !.offers = @ + 1]
    /\ UNCHANGED <<cacheFile, historyFile, bastion, last, args, depth>>

\* display_history, lines 377-378 and 395-397: 'q', or Ctrl-C
HistoryQuit ==
    /\ pc = "history_menu"
    /\ pc' = "done"
    /\ trace' = Exit(trace, 0)
    /\ UNCHANGED <<cacheFile, historyFile, bastion, last, args, depth>>

\* display_history, lines 391-394: not a number of the table
HistoryInvalid ==
    /\ pc = "history_menu"
    /\ UNCHANGED vars

\* display_history, lines 380-390: a number of the table
HistoryChoose ==
    /\ pc = "history_menu"
    /\ \E index \in 1..Len(get_history(historyFile)), http \in {"200", "500"},
          reads \in ReadCases :
        LET got  == get_devices(cacheFile, bastion, FALSE, http)
            name == get_history(historyFile)[index].device_name
        IN  /\ cacheFile' = got.file
            /\ IF got.escaped
               THEN /\ pc' = "done"
                    /\ trace' = Crash(trace)
                    /\ UNCHANGED <<historyFile, last>>
               ELSE IF HasDevice(got.ret, name)
               THEN /\ CallConnect(FindDevice(got.ret, name), reads)
                    /\ pc' = "done"
                    /\ trace' = Exit(Connected(trace, FindDevice(got.ret, name)), 0)
               ELSE /\ pc' = "history_menu"
                    /\ UNCHANGED <<historyFile, last, trace>>
    /\ UNCHANGED <<bastion, args, depth>>

\* main, lines 751-754: the up-front authentication fails
MainAuthFail ==
    /\ pc = "start"
    /\ AnyAction(args)
    /\ args.force_refresh \/ args.update # <<>>
    /\ \E authHttp \in {"500", "RequestException"} :
        /\ ~authenticate(authHttp)
        /\ pc' = "done"
        /\ trace' = Exit([trace EXCEPT !.auths = @ + 1, !.authFailed = TRUE], 1)
    /\ UNCHANGED <<cacheFile, historyFile, bastion, last, args, depth>>

\* main, lines 757-762, after a successful up-front authentication
MainUpdate ==
    /\ pc = "start"
    /\ args.update # <<>>
    /\ authenticate("204")
    /\ pc' = "done"
    /\ IF (~args.description.some \/ args.description.val = <<>>)
          /\ (~args.new_tags.some \/ args.new_tags.val = <<>>)
       THEN /\ trace' = Exit([trace EXCEPT !.auths = @ + 1], 1)
            /\ UNCHANGED <<cacheFile, bastion, last>>
       ELSE \E authHttp \in {"204", "500"}, getHttp \in {"200", "500"},
               putHttp \in {"200", "500"}, refreshHttp \in {"200", "500"} :
              LET u == update_device(cacheFile, bastion, args.update, args.description,
                                     args.new_tags, authHttp, getHttp, putHttp,
                                     refreshHttp)
              IN  /\ putHttp = "200" => HasDevice(bastion, args.update)
                  /\ cacheFile' = u.file
                  /\ bastion' = u.directory
                  /\ last' = [op |-> "update_device", name |-> args.update,
                              description |-> args.description,
                              tags |-> args.new_tags,
                              existing |-> IF HasDevice(bastion, args.update)
                                           THEN Some(FindDevice(bastion, args.update))
                                           ELSE None,
                              ret |-> u.ret, put |-> u.put]
                  /\ trace' = Exit([trace EXCEPT
                                      !.auths = @ + 2,
                                      !.authFailed = ~authenticate(authHttp),
                                      !.forced = IF u.ret THEN @ + 1 ELSE @], 0)
    /\ UNCHANGED <<historyFile, args, depth>>

\* main, lines 765-771, after a successful up-front authentication
MainForceRefresh ==
    /\ pc = "start"
    /\ args.update = <<>>
    /\ args.force_refresh
    /\ authenticate("204")
    /\ \E http \in {"200", "500"} :
        LET got == get_devices(cacheFile, bastion, TRUE, http)
        IN  /\ cacheFile' = got.file
            /\ IF args.search # <<>>
               THEN /\ pc' = "search"
                    /\ trace' = [trace EXCEPT !.auths = @ + 1, !.forced = @ + 1]
               ELSE /\ pc' = "done"
                    /\ trace' = Exit([trace EXCEPT !.auths = @ + 1, !.forced = @ + 1,
                                                   !.results = got.ret], 0)
    /\ UNCHANGED <<historyFile, bastion, last, args, depth>>

\* main, lines 773-793
MainList ==
    /\ pc = "start"
    /\ args.update = <<>> /\ ~args.force_refresh
    /\ args.list
    /\ pc' = "done"
    /\ \E http \in {"200", "500"} :
        LET got == get_devices(cacheFile, bastion, FALSE, http)
            r2  == AfterServices(AfterRegex(got.ret, args.filter), args.services)
        IN  /\ cacheFile' = got.file
            /\ IF got.escaped \/ TagsRaise(r2, args.tags)
               THEN trace' = Crash(trace)
               ELSE trace' = Exit([trace EXCEPT !.results = AfterTags(r2, args.tags)], 0)
    /\ UNCHANGED <<historyFile, bastion, last, args, depth>>

\* main, lines 795-804: the lookup by name in the list get_devices returns
MainConnect ==
    /\ pc = "start"
    /\ args.update = <<>> /\ ~args.force_refresh /\ ~args.list
    /\ args.connect # <<>>
    /\ \E http \in {"200", "500"}, reads \in ReadCases :
        LET got == get_devices(cacheFile, bastion, FALSE, http)
        IN  /\ cacheFile' = got.file
            /\ IF got.escaped
               THEN /\ pc' = "done"
                    /\ trace' = Crash(trace)
                    /\ UNCHANGED <<historyFile, last>>
               ELSE IF HasDevice(got.ret, args.connect)
               THEN /\ CallConnect(FindDevice(got.ret, args.connect), reads)
                    /\ pc' = "done"
                    /\ trace' = Exit(Connected([trace EXCEPT !.lookups = Append(@, TRUE)],
                                               FindDevice(got.ret, args.connect)), 0)
               ELSE /\ pc' = "connect_prompt"
                    /\ trace' = [trace EXCEPT !.lookups = Append(@, FALSE),
                                              !.prompts = @ + 1]
                    /\ UNCHANGED <<historyFile, last>>
    /\ UNCHANGED <<bastion, args, depth>>

\* input().lower() or 'y'
Accepts(response) == response \in {"", "y"}

\* the refresh prompt of --connect as it would be if a failed lookup after
\* the refresh asked again
ConnectPromptAgain ==
    /\ pc = "connect_prompt"
    /\ \E response \in {"", "y", "n"}, authHttp \in {"204", "500"},
          http \in {"200", "500"}, reads \in ReadCases :
        LET got == get_devices(cacheFile, bastion, TRUE, http)
        IN  IF ~Accepts(response)
            THEN /\ pc' = "done"
                 /\ trace' = Exit(trace, 0)
                 /\ UNCHANGED <<cacheFile, historyFile, last>>
            ELSE IF ~authenticate(authHttp)
            THEN /\ pc' = "done"
                 /\ trace' = Exit([trace EXCEPT !.auths = @ + 1,
                                                !.authFailed = TRUE], 1)
                 /\ UNCHANGED <<cacheFile, historyFile, last>>
            ELSE /\ cacheFile' = got.file
                 /\ IF HasDevice(got.ret, args.connect)
                    THEN /\ pc' = "done"
                         /\ CallConnect(FindDevice(got.ret, args.connect), reads)
                         /\ trace' = Exit(Connected(
                                [trace EXCEPT !.auths = @ + 1, !.forced = @ + 1,
                                              !.lookups = Append(@, TRUE)],
                                FindDevice(got.ret, args.connect)), 0)
                    ELSE /\ pc' = "connect_prompt"
                         /\ trace' = [trace EXCEPT !.auths = @ + 1,
                                                   !.forced = @ + 1,
                                                   !.prompts = @ + 1,
                                                   !.lookups = Append(@, FALSE)]
                         /\ UNCHANGED <<historyFile, last>>
    /\ UNCHANGED <<bastion, args, depth>>

\* main, lines 806-819: the answer to the refresh prompt of --connect
ConnectPrompt ==
    /\ pc = "connect_prompt"
    /\ pc' = "done"
    /\ \E response \in {"", "y", "n"}, authHttp \in {"204", "500"},
          http \in {"200", "500"}, reads \in ReadCases :
        LET got == get_devices(cacheFile, bastion, TRUE, http)
        IN  IF ~Accepts(response)
            THEN /\ trace' = Exit(trace, 0)
                 /\ UNCHANGED <<cacheFile, historyFile, last>>
            ELSE IF ~authenticate(authHttp)
            THEN /\ trace' = Exit([trace EXCEPT !.auths = @ + 1,
                                                !.authFailed = TRUE], 1)
                 /\ UNCHANGED <<cacheFile, historyFile, last>>
            ELSE /\ cacheFile' = got.file
                 /\ IF HasDevice(got.ret, args.connect)
                    THEN /\ CallConnect(FindDevice(got.ret, args.connect), reads)
                         /\ trace' = Exit(Connected(
                                [trace EXCEPT !.auths = @ + 1, !.forced = @ + 1,
                                              !.lookups = Append(@, TRUE)],
                                FindDevice(got.ret, args.connect)), 0)
                    ELSE /\ trace' = Exit([trace EXCEPT !.auths = @ + 1,
                                                        !.forced = @ + 1,
                                                        !.lookups = Append(@, FALSE)], 0)
                         /\ UNCHANGED <<historyFile, last>>
    /\ UNCHANGED <<bastion, args, depth>>

\* the search branch of main as it would be if it authenticated first
MainSearchAuthenticating ==
    /\ pc = "start"
    /\ args.update = <<>> /\ ~args.force_refresh /\ ~args.list
    /\ args.connect = <<>>
    /\ EffectiveSearch(args) # <<>>
    /\ pc' = "search"
    /\ trace' = [trace EXCEPT !.auths = @ + 1]
    /\ UNCHANGED <<cacheFile, historyFile, bastion, last, args, depth>>

\* main, lines 820-822
MainSearch ==
    /\ pc = "start"
    /\ args.update = <<>> /\ ~args.force_refresh /\ ~args.list
    /\ args.connect = <<>>
    /\ EffectiveSearch(args) # <<>>
    /\ pc' = "search"
    /\ UNCHANGED <<cacheFile, historyFile, bastion, last, args, depth, trace>>

\* what a search_devices frame does with non-empty results, lines 552-557,
\* 586-587 and 613-617, 646-647: the table and the prompt to connect
OfferPc(results) == IF Len(results) = 1 THEN "confirm" ELSE "menu"

\* search_devices, lines 521-552 and 603-605: a frame is entered, the devices
\* are obtained and filtered
SearchEnter ==
    /\ pc = "search"
    /\ \E http \in {"200", "500"} :
        LET got == get_devices(cacheFile, bastion, FALSE, http)
            f   == FilterDevices(got.ret, EffectiveSearch(args), args.filter,
                                 args.services, args.tags)
        IN  /\ cacheFile' = got.file
            /\ IF got.escaped \/ f.raised
               THEN pc' = "done" /\ trace' = Crash(trace)
               ELSE IF NoFilters(EffectiveSearch(args), args.filter, args.services,
                                 args.tags)
               THEN pc' = "return" /\ trace' = [trace EXCEPT !.results = got.ret]
               ELSE IF f.results # <<>>
               THEN /\ pc' = OfferPc(f.results)
                    /\ trace' = [trace EXCEPT !.results = f.results, !.offers = @ + 1]
               ELSE /\ pc' = "refresh_prompt"
                    /\ trace' = [trace EXCEPT !.results = <<>>, !.prompts = @ + 1]
    /\ UNCHANGED <<historyFile, bastion, last, args, depth>>

\* search_devices, lines 558-560 and 618-620: Enter, or 'n'
SearchConfirm ==
    /\ pc = "confirm"
    /\ pc' = "return"
    /\ \E response \in {"", "n"}, reads \in ReadCases :
        IF response # "n"
        THEN /\ CallConnect(trace.results[1], reads)
             /\ trace' = Connected(trace, trace.results[1])
        ELSE UNCHANGED <<historyFile, last, trace>>
    /\ UNCHANGED <<cacheFile, bastion, args, depth>>

\* search_devices, lines 592-593 and 652-653: 'q'
SearchMenuQuit ==
    /\ pc = "menu"
    /\ pc' = "return"
    /\ UNCHANGED <<cacheFile, historyFile, bastion, last, args, depth, trace>>

\* search_devices, lines 599-602 and 659-662: not a number of the table
SearchMenuInvalid ==
    /\ pc = "menu"
    /\ UNCHANGED vars

\* search_devices, lines 595-598 and 655-658: a number of the table
SearchMenuChoose ==
    /\ pc = "menu"
    /\ pc' = "return"
    /\ \E index \in 1..Len(trace.results), reads \in ReadCases :
        /\ CallConnect(trace.results[index], reads)
        /\ trace' = Connected(trace, trace.results[index])
    /\ UNCHANGED <<cacheFile, bastion, args, depth>>

\* search_devices, lines 606-612: the answer to the refresh prompt; on 'y'
\* and a successful authentication the list is fetched and search_devices
\* calls itself
RefreshPrompt ==
    /\ pc = "refresh_prompt"
    /\ \E response \in {"", "y", "n"}, authHttp \in {"204", "500"},
          http \in {"200", "500"} :
        LET got == get_devices(cacheFile, bastion, TRUE, http)
        IN  IF ~Accepts(response)
            THEN /\ pc' = "return"
                 /\ UNCHANGED <<cacheFile, depth, trace>>
            ELSE IF ~authenticate(authHttp)
            THEN /\ pc' = "return"
                 /\ trace' = [trace EXCEPT !.auths = @ + 1, !.authFailed = TRUE,
                                           !.results = <<>>]
                 /\ UNCHANGED <<cacheFile, depth>>
            ELSE /\ depth < MaxDepth
                 /\ cacheFile' = got.file
                 /\ depth' = depth + 1
                 /\ pc' = "search"
                 /\ trace' = [trace EXCEPT !.auths = @ + 1, !.forced = @ + 1]
    /\ UNCHANGED <<historyFile, bastion, last, args>>

\* search_devices, line 666 "return results", and what the caller does with
\* the value: main() ends; an outer search_devices frame goes on at line 613
SearchReturn ==
    /\ pc = "return"
    /\ IF depth = 0
       THEN /\ pc' = "done"
            /\ trace' = Exit(trace, 0)
            /\ UNCHANGED depth
       ELSE /\ depth' = depth - 1
            /\ IF trace.results # <<>>
               THEN /\ pc' = OfferPc(trace.results)
                    /\ trace' = [trace EXCEPT !.offers = @ + 1]
               ELSE /\ pc' = "return"
                    /\ UNCHANGED trace
    /\ UNCHANGED <<cacheFile, historyFile, bastion, last, args>>

\* Ctrl-C at a prompt of search_devices or main, lines 826-828
Interrupt ==
    /\ pc \in {"confirm", "menu", "refresh_prompt", "connect_prompt"}
    /\ pc' = "done"
    /\ trace' = Exit(trace, 0)
    /\ UNCHANGED <<cacheFile, historyFile, bastion, last, args, depth>>

MainNext ==
    \/ MainHistory \/ HistoryQuit \/ HistoryInvalid \/ HistoryChoose
    \/ MainAuthFail \/ MainUpdate \/ MainForceRefresh \/ MainList
    \/ MainConnect \/ ConnectPrompt \/ MainSearch
    \/ SearchEnter \/ SearchConfirm \/ SearchMenuQuit \/ SearchMenuInvalid
    \/ SearchMenuChoose \/ RefreshPrompt \/ SearchReturn \/ Interrupt

SpecMain == MainInit /\ [][MainNext]_vars

----------------------------------------------------------------------------
(* Claims on the cache store (SpecCache) *)

CachedNames(simplified) == {simplified[i].nom : i \in 1..Len(simplified)}

\* C1: save_cache(D) with D non-empty, followed immediately by
\* load_cache(force_refresh=False), returns a list whose device names are
\* those of D, whatever the cache file held before the save.
C1_SaveLoadRoundTrip ==
    [][(/\ last.op = "save_cache"
        /\ last.devices # <<>>
        /\ last'.op = "load_cache"
        /\ ~last'.force)
       => (/\ last'.ret.some
           /\ CachedNames(last'.ret.devices) = Names(last.devices))]_vars

\* the set difference by name that C4 expects the second save to report
ExpectedReport(S2, S1) ==
    LET new == Names(S2) \ Names(S1)
    IN  IF new = {} THEN NoReport
        ELSE IF Cardinality(new) > NewReportLimit
        THEN [kind |-> "count", n |-> Cardinality(new), names |-> {}]
        ELSE [kind |-> "table", n |-> Cardinality(new), names |-> new]

\* C4: when save_cache(S1) succeeds (S1 possibly empty) and is followed by
\* save_cache(S2), the second call reports as new exactly the names of S2
\* that are not in S1, as a count only when there are more than 10.
C4_NewDeviceReport ==
    [][(/\ last.op = "save_cache"
        /\ ~last.logged
        /\ last'.op = "save_cache")
       => last'.report = ExpectedReport(last'.devices, last.devices)]_vars

\* C9: load_cache(force_refresh=False) on a file that is not a well-formed
\* snapshot returns None, lets no exception escape and leaves the file as it
\* is, as on a missing file; load_cache(force_refresh=True) returns None on
\* every file.
C9_CorruptCacheIsAbsent ==
    [][(/\ last'.op = "load_cache"
        /\ (last'.force \/ ~WellFormedCache(cacheFile)))
       => (/\ ~last'.ret.some
           /\ ~last'.escaped
           /\ cacheFile' = cacheFile)]_vars

C9_Witness ==
    /\ last.op = "load_cache"
    /\ ~last.force
    /\ cacheFile.exists
    /\ ~WellFormedCache(cacheFile)
    /\ ~last.ret.some

----------------------------------------------------------------------------
(* Claims on update_device (SpecUpdate) *)

\* C5: update_device with only a description sends a PUT whose tags are the
\* tags the device has in the bastion directory, and with only tags a PUT
\* whose description is the one the device has there, for every cache state.
C5_PartialUpdateKeepsOtherField ==
    (/\ last.op = "update_device"
     /\ last.put.sent
     /\ last.existing.some)
    => (/\ ~last.tags.some => last.put.data.tags = last.existing.val.tags
        /\ ~last.description.some
              => last.put.data.description = last.existing.val.description)

----------------------------------------------------------------------------
(* Claims on the filter pipeline (SpecSearch) *)

\* the device holds a "key:value" tag equal, case-insensitively, to the token
HasTag(d, token) ==
    \E i \in 1..Len(d.tags) : StrLower(RenderTag(d.tags[i])) = StrLower(token)

HasAllTags(d, filter_tags) ==
    \A k \in 1..Len(StrSplit(filter_tags, ",")) :
        HasTag(d, StrStrip(StrSplit(filter_tags, ",")[k]))

\* C3: search_devices(filter_tags=T) completes without raising and returns
\* exactly the devices that hold every token of T among their "key:value"
\* tags, compared case-insensitively.
C3_TagFilter ==
    (/\ last.op = "search_devices"
     /\ last.filter_tags # <<>>
     /\ NoFilters(last.query, last.filter_regex, last.filter_services, <<>>))
    => (/\ ~last.raised
        /\ last.results = SelectSeq(last.devices,
                                    LAMBDA d : HasAllTags(d, last.filter_tags)))

\* the device offers the service named by the token, whatever the case
HasService(d, token) ==
    \E i \in 1..Len(d.services) :
        StrLower(d.services[i].service_name) = StrLower(token)

HasAllServices(d, filter_services) ==
    \A k \in 1..Len(StrSplit(filter_services, ",")) :
        HasService(d, StrStrip(StrSplit(filter_services, ",")[k]))

HasSubstring(d, query) ==
    \E field \in {d.device_name, d.host, d.description} :
        StrContains(StrLower(query), StrLower(field))

HasRegex(d, filter_regex) ==
    \E field \in {d.device_name, d.host, d.description} :
        RegexSearch(filter_regex, field)

\* every supplied predicate holds of the device
SatisfiesAll(d, query, filter_regex, filter_services) ==
    /\ filter_regex # <<>> => HasRegex(d, filter_regex)
    /\ filter_services # <<>> => HasAllServices(d, filter_services)
    /\ query # <<>> => HasSubstring(d, query)

\* C8: without a tag filter, search_devices selects exactly the devices that
\* satisfy every supplied predicate (regex, services, substring), in their
\* original order; the stages applied in the opposite order select the same
\* devices; with no filter at all the full list is returned unchanged.
C8_FilterConjunction ==
    (last.op = "search_devices" /\ last.filter_tags = <<>>)
    => (/\ ~last.raised
        /\ last.results =
             SelectSeq(last.devices,
                       LAMBDA d : SatisfiesAll(d, last.query, last.filter_regex,
                                               last.filter_services))
        /\ last.results =
             AfterRegex(AfterServices(AfterQuery(last.devices, last.query),
                                      last.filter_services),
                        last.filter_regex)
        /\ NoFilters(last.query, last.filter_regex, last.filter_services, <<>>)
              => last.results = last.devices)

C8_Witness ==
    /\ last.op = "search_devices"
    /\ last.filter_tags = <<>>
    /\ last.query # <<>>
    /\ last.filter_regex # <<>>
    /\ last.filter_services # <<>>
    /\ Len(last.results) = 2
    /\ Len(last.devices) = 4

----------------------------------------------------------------------------
(* Claims on the history store (SpecHistory) *)

EntryNames(entries) == [i \in 1..Len(entries) |-> entries[i].device_name]

\* the names of a list, each kept at its first place only
RECURSIVE Distinct(_)
Distinct(names) ==
    IF names = <<>> THEN <<>>
    ELSE <<Head(names)>> \o Distinct(SelectSeq(Tail(names), LAMBDA n : n # Head(names)))

Reverse(list) == [i \in 1..Len(list) |-> list[Len(list) + 1 - i]]

FirstN(list, n) == SubSeq(list, 1, IF Len(list) < n THEN Len(list) ELSE n)

WellFormedHistory(file) ==
    /\ file.exists
    /\ file.json
    /\ Len(file.entries) <= HistoryCap
    /\ \A i, j \in 1..Len(file.entries) :
          file.entries[i].device_name = file.entries[j].device_name => i = j

\* C6: from an absent or well-formed history file, after any sequence of
\* connect_to_device calls the history is the list of distinct connected
\* device names, most recent first, followed by the earlier entries, cut to
\* the first 10: no name twice, never more than 10 entries.
C6_HistoryShape ==
    (~trace.init.exists \/ WellFormedHistory(trace.init))
    => (/\ EntryNames(historyFile.entries) =
             FirstN(Distinct(Reverse(trace.connects) \o EntryNames(trace.init.entries)),
                    HistoryCap)
        /\ trace.connects # <<>> => WellFormedHistory(historyFile))

C6_Witness ==
    /\ ~trace.init.exists
    /\ trace.connects = <<web1.device_name, db1.device_name, web1.device_name>>
    /\ EntryNames(historyFile.entries) = <<web1.device_name, db1.device_name>>

\* C7: every call of connect_to_device has the device as the first entry of
\* the history file when the remote shell is started, whatever the history
\* file held before (absent, well-formed or unparseable).
C7_RecordIntentFirst ==
    last.op = "connect_to_device"
    => (/\ last.historyAtRun.exists
        /\ last.historyAtRun.json
        /\ last.historyAtRun.entries # <<>>
        /\ last.historyAtRun.entries[1].device_name = last.device.device_name)

----------------------------------------------------------------------------
(* Claims on the flows of main() (SpecMain) *)

\* the invocation runs search_devices from main, lines 820-822
SearchInvocation ==
    /\ args.update = <<>> /\ ~args.force_refresh /\ ~args.list
    /\ args.connect = <<>>
    /\ EffectiveSearch(args) # <<>>

\* C2: a run of search_devices whose filters match nothing offers a forced
\* refresh at most once and performs at most one authenticate and one forced
\* fetch; a retry that also finds nothing ends the flow without another
\* prompt.
C2_SearchRetriesOnce ==
    SearchInvocation
    => (/\ trace.prompts <= 1
        /\ trace.auths <= 1
        /\ trace.forced <= 1)

\* C10: with --connect NAME and no --force-refresh, once NAME was not found
\* in the list at hand, at most one forced refresh (one authenticate, one
\* forced fetch) is performed; when the lookup in the refreshed list fails
\* too the invocation ends with no second refresh and no connection, and when
\* it succeeds exactly one connection, to NAME, is made.
C10_ConnectRetriesOnce ==
    (trace.lookups # <<>> /\ ~trace.lookups[1])
    => (/\ ~args.force_refresh
        /\ Len(trace.lookups) <= 2
        /\ trace.prompts <= 1
        /\ trace.auths <= 1
        /\ trace.forced <= 1
        /\ trace.forced = 1 => pc = "done"
        /\ trace.lookups = <<FALSE, FALSE>>
              => (pc = "done" /\ trace.connects = <<>> /\ trace.exit = 0)
        /\ trace.lookups = <<FALSE, TRUE>>
              => (pc = "done" /\ trace.connects = <<args.connect>>)
        /\ Len(trace.lookups) = 1 => trace.connects = <<>>)

C10_Witness ==
    /\ trace.lookups = <<FALSE, FALSE>>
    /\ trace.forced = 1
    /\ pc = "done"

----------------------------------------------------------------------------
(* Claims on the connector (SpecHistory) *)

\* the last call was connect_to_device with deployment enabled
DeployEnabled ==
    /\ last.op = "connect_to_device"
    /\ ~last.interactive
    /\ ~last.no_deploy

\* the files of the deploy list whose read succeeded, in the order of the list
ReadableFiles(deploy_files, reads) ==
    SelectSeq(deploy_files, LAMBDA f : reads[f] = "ok")

\* C11: with deployment enabled, whatever the outcome of reading each file
\* of the deploy list (ok, not found, any other error), the remote command
\* writes exactly the files whose read succeeded: a file that cannot be read
\* is skipped and takes no other file out of the payload.
C11_DeployFailureIsolated ==
    DeployEnabled
    => last.command.files = ReadableFiles(last.deploy_files, last.reads)

\* C12: with deployment enabled, the remote shell is started with
\* /tmp/.bashrc_remote as its rc file exactly when .bashrc_remote is one of
\* the files the command writes; otherwise a login shell (bash -l) is started.
C12_RcFileOnlyWhenDeployed ==
    DeployEnabled
    => IF InList(".bashrc_remote", last.command.files)
       THEN last.command.shell = "bash --rcfile /tmp/.bashrc_remote"
       ELSE last.command.shell = "bash -l"

----------------------------------------------------------------------------
(* Further claims on the cache store and the fetch (SpecCache, SpecUpdate) *)

\* C13: whenever update_device returns True the cache file holds a snapshot
\* fetched after the PUT was accepted: the next get_devices() is served from
\* the cache and returns the description and tags that were sent.
C13_UpdateRefreshesCache ==
    [][(/\ last.op = "update_device"
        /\ last.ret
        /\ last'.op = "get_devices"
        /\ ~last'.force)
       => (/\ ~last'.fetched
           /\ ~last'.escaped
           /\ HasDevice(last'.ret, last.name)
           /\ FindDevice(last'.ret, last.name).description
                 = last.put.data.description
           /\ FindDevice(last'.ret, last.name).tags = last.put.data.tags)]_vars

\* C14: when the fetch of get_devices fails (a RequestException or a status
\* other than 200/206) the call returns an empty list, raises nothing and
\* leaves the cache file as it was; save_cache is called only after a fetch
\* answered 200 or 206.
C14_FetchFailSoft ==
    [][last'.op = "get_devices"
       => (/\ last'.saved => (last'.fetched /\ last'.http \in {"200", "206"})
           /\ (last'.fetched /\ last'.http \notin {"200", "206"})
                 => (/\ last'.ret = <<>>
                     /\ ~last'.escaped
                     /\ cacheFile' = cacheFile))]_vars

C14_Witness ==
    /\ last.op = "get_devices"
    /\ last.fetched
    /\ last.http = "RequestException"
    /\ ~last.saved
    /\ WellFormedCache(cacheFile)
    /\ cacheFile.devices # <<>>

\* C19: for every device list D of a successful fetch, a get_devices() served
\* from the cache written by save_cache(D) completes without raising and
\* returns the devices of D, in order, with the same name, host, services,
\* tag keys and values, and description.
C19_CachePreservesDevices ==
    [][(/\ last.op = "save_cache"
        /\ ~last.logged
        /\ last'.op = "get_devices"
        /\ ~last'.force)
       => (/\ ~last'.fetched
           /\ ~last'.escaped
           /\ last'.ret = last.devices)]_vars

----------------------------------------------------------------------------
(* Further claims on the flows of main() (SpecMain) *)

\* neither --force-refresh nor --update was given
NoAuthFlag == ~args.force_refresh /\ args.update = <<>>

\* C15 as stated: an invocation with neither --force-refresh nor --update
\* never calls authenticate, on any path.
C15_AuthOnlyWithFlags ==
    NoAuthFlag => trace.auths = 0

\* C15 as amended: an invocation with neither --force-refresh nor --update
\* calls authenticate only in the step that answers the refresh prompt of a
\* not-found recovery (search or connect-by-name).
C15_AuthOnlyWithFlagsOrRecovery ==
    [][(NoAuthFlag /\ trace'.auths > trace.auths)
       => pc \in {"refresh_prompt", "connect_prompt"}]_vars

C15_Witness ==
    /\ NoAuthFlag
    /\ trace.auths = 1
    /\ trace.prompts = 1
    /\ pc = "search"

\* C16: an invocation in which an authentication attempt failed exits with
\* status 1; status 0 is produced only by runs with no failed authentication.
C16_AuthFailureExitsOne ==
    (pc = "done" /\ trace.authFailed) => trace.exit = 1

\* NAME is in the device list the invocation obtained
ObtainedHasName ==
    \/ /\ args.force_refresh
       /\ args.update = <<>>
       /\ HasDevice(trace.results, args.connect)
    \/ InList(TRUE, trace.lookups)

\* C17: an invocation given --connect NAME in which no authentication failed
\* and NAME is in the device list obtained calls connect_to_device for NAME,
\* also when --force-refresh is given with --connect.
C17_ConnectHonoured ==
    (/\ pc = "done"
     /\ args.connect # <<>>
     /\ ~trace.authFailed
     /\ ~trace.crashed
     /\ ObtainedHasName)
    => trace.connects = <<args.connect>>

\* C18: one run of the tool calls connect_to_device at most once, and shows
\* its results with a prompt to connect at most once, so that a declined
\* prompt is not asked again.
C18_AtMostOneConnection ==
    /\ Len(trace.connects) <= 1
    /\ trace.offers <= 1

====
